---- MODULE Spec2Model ----
(***************************************************************************)
(* Model of the video-review analyzer's response-to-report pipeline:       *)
(*   - the narrative parser  GeminiAnalyzer.processGeminiResponse          *)
(*     (src/backend/src/services/geminiAnalyzer.ts),                       *)
(*   - the annotation scorer VideoAnalyzer.processAnalysisResults and its  *)
(*     helpers (src/backend/src/services/videoAnalyzer.ts),                *)
(*   - the route POST /api/analyze/gemini (src/backend/src/index.ts) with  *)
(*     GeminiAnalyzer.analyzeVideo.                                        *)
(*                                                                         *)
(* Text is modelled as token sequences: a line is a sequence of literal    *)
(* strings whose concatenation is the line of text ("**", "Clarity", " ",  *)
(* "(", "7", "/10", ")", "**" is the line "**Clarity (7/10)**").  A point  *)
(* stored in a list is the token sequence of its text.  overallScore is    *)
(* kept in tenths (60 stands for 6.0).                                     *)
(***************************************************************************)
EXTENDS Integers, Sequences, FiniteSets, TLC

VARIABLES
    pc,                 \* "parse" | "annotate" | "aggregate" | "done", and the
                        \* route's "idle" | "fetch" | "analyze" | "generate" | "responded"
    line,               \* narrative parser: lines[i], the line being processed
    i,                  \* narrative parser: number of lines consumed
    currentSection,     \* narrative parser: key of the active category or "null"
    currentSubsection,  \* narrative parser: "good" | "improvement" | "null"
    collectingPoints,   \* narrative parser: BOOLEAN
    result,             \* the six CategoryAnalysis records of the report
    overallScore,       \* report.overallScore, in tenths
    suggestions,        \* report.suggestions
    bundle,             \* annotation scorer: the annotation bundle scored
    histScore,          \* history: category -> number written in its last header (-1: none)
    histCat,            \* history: category of the most recent header line
    histRegion,         \* history: points region the text is in
    histLast,           \* history: kind of the last header, marker or assessment line
    histAssessed,       \* history: an assessment line was read since the last header
    prev,               \* history: the parser's state before the last line
    http,               \* /api/analyze/gemini: the request in progress and its response
    analysis,           \* GeminiAnalyzer: the text returned by the generative service
    reports,            \* history: text -> the report of its first completed parse
    ui                  \* frontend App: its state hooks and the submit in progress

vars == <<pc, line, i, currentSection, currentSubsection, collectingPoints,
          result, overallScore, suggestions, bundle,
          histScore, histCat, histRegion, histLast, histAssessed, prev,
          http, analysis, reports, ui>>

(***************************************************************************)
(* Bounds                                                                  *)
(***************************************************************************)
MaxLines == 5

(***************************************************************************)
(* CategoryModel                                                           *)
(***************************************************************************)
Categories ==
    <<"clarity", "engagement", "relevance", "informativeContent",
      "visualsAndAudio", "presentation">>

CategorySet == {Categories[k] : k \in 1..Len(Categories)}

CategoryAnalysis(score) ==
    [score |-> score, details |-> <<>>, goodPoints |-> <<>>, improvementPoints |-> <<>>]

emptyResult == [c \in CategorySet |-> CategoryAnalysis(0)]

Min(S) == CHOOSE x \in S : \A y \in S : x <= y

(***************************************************************************)
(* Text primitives over token sequences                                    *)
(***************************************************************************)
\* Tokens that are runs of decimal digits (\d+).
NumTok == {"0", "1", "3", "4", "6", "7", "8", "15"}

\* parseInt on a digit-run token.
parseInt(tok) ==
    CASE tok = "0" -> 0
      [] tok = "1" -> 1
      [] tok = "3" -> 3
      [] tok = "4" -> 4
      [] tok = "6" -> 6
      [] tok = "7" -> 7
      [] tok = "8" -> 8
      [] tok = "15" -> 15

\* String.prototype.toLowerCase on a token.
toLowerCase(tok) ==
    CASE tok = "Clarity" -> "clarity"
      [] tok = "ENGAGEMENT" -> "engagement"
      [] tok = "Informative Content" -> "informative content"
      [] tok = "Visuals and Audio Quality" -> "visuals and audio quality"
      [] tok = "Presentation" -> "presentation"
      [] tok = "Good Points:" -> "good points:"
      [] tok = "Improvement Points:" -> "improvement points:"
      [] tok = "Overall Assessment:" -> "overall assessment:"
      [] tok = "Overall Assessment" -> "overall assessment"
      [] OTHER -> tok

\* s.includes(needle) for a lower-cased token s: the needles of the parser
\* never straddle two tokens of the alphabet.
tokIncludes(s, needle) ==
    \/ s = needle
    \/ s = "overall assessment:" /\ needle = "overall assessment"

\* text.toLowerCase().includes(needle)
lowerIncludes(text, needle) ==
    \E k \in 1..Len(text) : tokIncludes(toLowerCase(text[k]), needle)

\* String.prototype.trim: whitespace tokens dropped at both ends.
RECURSIVE trim(_)
trim(text) ==
    IF text = <<>> THEN <<>>
    ELSE IF Head(text) = " " THEN trim(Tail(text))
    ELSE IF text[Len(text)] = " " THEN trim(SubSeq(text, 1, Len(text) - 1))
    ELSE text

\* Index of the first token at or after k that is not in S (Len+1 if none):
\* the end of a greedy run S* starting at k.
RECURSIVE skipRun(_, _, _)
skipRun(text, k, S) ==
    IF k <= Len(text) /\ text[k] \in S THEN skipRun(text, k + 1, S) ELSE k

(***************************************************************************)
(* NarrativeResponseParser: GeminiAnalyzer.processGeminiResponse           *)
(***************************************************************************)
\* The alternation (Clarity|Engagement|...|Presentation) under the /i flag.
NameAlternatives ==
    {"clarity", "engagement", "relevance", "informative content",
     "visuals and audio quality", "presentation"}

null == <<>>

\* Mutant of sectionMatchOf: the digits must follow an opening parenthesis.
sectionMatchParenthesised(text) ==
    LET a == IF text # <<>> /\ text[1] = "**" THEN 2 ELSE 1
        b == skipRun(text, a, NumTok)
        c == skipRun(text, b, {"."})
        d == skipRun(text, c, {" "})
        J == {j \in (d + 2)..(Len(text) - 1) :
                 text[j - 1] = "(" /\ text[j] \in NumTok /\ text[j + 1] = "/10"}
    IN  IF d <= Len(text) /\ toLowerCase(text[d]) \in NameAlternatives /\ J # {}
        THEN <<text[d], text[Min(J)]>>
        ELSE null

\* line.match(/^\*?\*?\d*\.*\s*(Clarity|...|Presentation).*?(\d+)\/10\*?\*?/i):
\* null, or <<group 1, group 2>>.  The prefix classes are disjoint from the
\* first letter of a name, so the greedy runs never need backtracking; the
\* lazy .*? stops at the first digit run that is followed by "/10".
sectionMatchOf(text) ==
    LET a == IF text # <<>> /\ text[1] = "**" THEN 2 ELSE 1
        b == skipRun(text, a, NumTok)
        c == skipRun(text, b, {"."})
        d == skipRun(text, c, {" "})
        J == {j \in (d + 1)..(Len(text) - 1) : text[j] \in NumTok /\ text[j + 1] = "/10"}
    IN  IF d <= Len(text) /\ toLowerCase(text[d]) \in NameAlternatives /\ J # {}
        THEN <<text[d], text[Min(J)]>>
        ELSE null

\* Mutant of sectionKey: the two remappings crossed.
sectionKeySwapped(name) ==
    LET lower == toLowerCase(name)
    IN  IF lower = "informative content" THEN "visualsAndAudio"
        ELSE IF lower = "visuals and audio quality" THEN "informativeContent"
        ELSE lower

\* currentSection after lines 288-294: the lower-cased name, two names remapped.
sectionKey(name) ==
    LET lower == toLowerCase(name)
    IN  IF lower = "informative content" THEN "informativeContent"
        ELSE IF lower = "visuals and audio quality" THEN "visualsAndAudio"
        ELSE lower

\* line.startsWith('-'): "-" is the only token that begins with a dash.
startsWithDash(text) == text # <<>> /\ text[1] = "-"

\* line.substring(1).trim() of a line that starts with "-".
pointOf(text) == trim(Tail(text))

\* Mutant of acceptsPoint: the filter asks for the colon.
acceptsPointColon(point) == point # <<>> /\ ~lowerIncludes(point, "overall assessment:")

\* The test of line 327: point && !point.toLowerCase().includes('overall assessment')
acceptsPoint(point) == point # <<>> /\ ~lowerIncludes(point, "overall assessment")

\* Mutant of setScore: a score already set is kept (first write wins).
setScoreFirstWins(res, section, score) ==
    IF res[section].score = 0 THEN [res EXCEPT ![section].score = score] ELSE res

\* Mutant of setScore: the report is rebuilt from the defaults around the
\* new score.
setScoreFresh(res, section, score) ==
    [c \in CategorySet |-> IF c = section THEN [res[c] EXCEPT !.score = score]
                                           ELSE CategoryAnalysis(0)]

\* Lines 297-301: section.score = score.
setScore(res, section, score) == [res EXCEPT ![section].score = score]

\* Mutant of pushPoint: the point is put at the head of its list.
pushPointFront(res, section, subsection, point) ==
    IF subsection = "good"
    THEN [res EXCEPT ![section].goodPoints = <<point>> \o @]
    ELSE [res EXCEPT ![section].improvementPoints = <<point>> \o @]

\* Mutant of pushPoint: the two lists exchanged.
pushPointSwapped(res, section, subsection, point) ==
    IF subsection = "good"
    THEN [res EXCEPT ![section].improvementPoints = Append(@, point)]
    ELSE [res EXCEPT ![section].goodPoints = Append(@, point)]

\* section.goodPoints.push(point) / section.improvementPoints.push(point)
pushPoint(res, section, subsection, point) ==
    IF subsection = "good"
    THEN [res EXCEPT ![section].goodPoints = Append(@, point)]
    ELSE [res EXCEPT ![section].improvementPoints = Append(@, point)]

\* Lines 348-359: mean of the category scores that are > 0, in tenths,
\* Math.round((totalScore / sectionCount) * 10).
RECURSIVE sumScores(_, _)
sumScores(res, S) ==
    IF S = {} THEN 0
    ELSE LET c == CHOOSE x \in S : TRUE IN res[c].score + sumScores(res, S \ {c})

\* Math.round(10 * num / den) for num >= 0, den > 0 (ties go up).
roundTenths(num, den) == (20 * num + den) \div (2 * den)

\* Mutant of unweightedOverall: the sum is divided by all six categories.
unweightedOverallAll(res) ==
    roundTenths(sumScores(res, CategorySet), Cardinality(CategorySet))

unweightedOverall(res) ==
    LET counted == {c \in CategorySet : res[c].score > 0}
        totalScore == sumScores(res, counted)
        sectionCount == Cardinality(counted)
    IN  IF sectionCount > 0 THEN roundTenths(totalScore, sectionCount) ELSE 0

(***************************************************************************)
(* Input lines of the narrative text                                       *)
(***************************************************************************)
LineSet ==
    { <<"**", "Clarity", " ", "(", "7", "/10", ")", "**">>,
      <<"**", "1", ".", " ", "Clarity", " ", "(", "6", "/10", ")", "**">>,
      <<"ENGAGEMENT", " ", "(", "15", "/10", ")">>,
      <<"relevance", ":", " ", "8", "/10">>,
      <<"**", "Informative Content", " ", "(", "0", "/10", ")", "**">>,
      <<" ", "Visuals and Audio Quality", " ", "(", "4", "/10", ")">>,
      <<"Presentation", " ", "(", "-", "3", "/10", ")">>,
      <<"Clarity", " ", "is", " ", "key">>,
      <<"Clarity", " ", "Good Points:">>,
      <<"Presentation", " ", "Overall Assessment:", " ", "ok">>,
      <<"Good Points:">>,
      <<"**", "Improvement Points:", "**">>,
      <<"-", " ", "great">>,
      <<" ", "-", " ", "audio", " ">>,
      <<"-">>,
      <<"-", " ", "Overall Assessment", " ", "noted">>,
      <<"-", " ", "Overall Assessment:", " ", "fine">>,
      <<"Overall Assessment:", " ", "fine">>,
      <<" ">> }

(***************************************************************************)
(* History of the text read so far, in the terms of the format (section 6  *)
(* of the specification): which header was written last for each category *)
(* and which points region the text is in.                                 *)
(***************************************************************************)
\* The documented remapping table, header name -> report key.
DocumentedKey(lowerName) ==
    CASE lowerName = "clarity" -> "clarity"
      [] lowerName = "engagement" -> "engagement"
      [] lowerName = "relevance" -> "relevance"
      [] lowerName = "informative content" -> "informativeContent"
      [] lowerName = "visuals and audio quality" -> "visualsAndAudio"
      [] lowerName = "presentation" -> "presentation"

\* The category name written in a line, lower-cased.
WrittenName(text) ==
    toLowerCase(text[Min({k \in 1..Len(text) : toLowerCase(text[k]) \in NameAlternatives})])

\* The integer N written in the line's score token N/10.
WrittenScore(text) ==
    parseInt(text[Min({k \in 1..Len(text) : text[k] = "/10"}) - 1])

IsHeader(text) == sectionMatchOf(text) # null
IsGoodMarker(text) == ~IsHeader(text) /\ lowerIncludes(text, "good points:")
IsImprovementMarker(text) ==
    ~IsHeader(text) /\ ~IsGoodMarker(text) /\ lowerIncludes(text, "improvement points:")
IsMarker(text) == IsGoodMarker(text) \/ IsImprovementMarker(text)
IsAssessment(text) ==
    ~IsHeader(text) /\ ~IsMarker(text) /\ lowerIncludes(text, "overall assessment:")
IsBullet(text) == ~IsHeader(text) /\ ~IsMarker(text) /\ startsWithDash(text)
IsPlainAssessment(text) == IsAssessment(text) /\ ~startsWithDash(text)

HistScore(text) ==
    IF IsHeader(text)
    THEN [histScore EXCEPT ![DocumentedKey(WrittenName(text))] = WrittenScore(text)]
    ELSE histScore

HistCat(text) ==
    IF IsHeader(text) THEN DocumentedKey(WrittenName(text)) ELSE histCat

HistRegion(text) ==
    IF text = <<>> THEN histRegion
    ELSE IF IsHeader(text) THEN "none"
    ELSE IF IsGoodMarker(text) THEN "good"
    ELSE IF IsImprovementMarker(text) THEN "improvement"
    ELSE IF IsAssessment(text) THEN "none"
    ELSE histRegion

\* Which of a header, a points marker or a non-bullet assessment line was
\* written last.
HistLast(text) ==
    IF text = <<>> THEN histLast
    ELSE IF IsHeader(text) THEN "header"
    ELSE IF IsGoodMarker(text) THEN "good"
    ELSE IF IsImprovementMarker(text) THEN "improvement"
    ELSE IF IsPlainAssessment(text) THEN "assessment"
    ELSE histLast

\* Whether an 'Overall Assessment:' line was written since the last header.
HistAssessed(text) ==
    IF text = <<>> THEN histAssessed
    ELSE IF IsHeader(text) THEN FALSE
    ELSE IF IsAssessment(text) THEN TRUE
    ELSE histAssessed

\* The parser's state, as recorded in prev.
Snapshot ==
    [result |-> result, currentSection |-> currentSection,
     currentSubsection |-> currentSubsection, collectingPoints |-> collectingPoints,
     histScore |-> histScore, histCat |-> histCat, histRegion |-> histRegion,
     histLast |-> histLast]

(***************************************************************************)
(* The steps of one loop iteration that touch the collection state         *)
(***************************************************************************)
\* Mutant of headerReset: a header leaves the collection state as it was.
headerResetKept ==
    [currentSubsection |-> currentSubsection, collectingPoints |-> collectingPoints]

\* Lines 303-304: a header clears the subsection and stops collection.
headerReset == [currentSubsection |-> "null", collectingPoints |-> FALSE]

\* Mutant of collects: any bullet under an active category is collected.
collectsAnywhere(collecting, section, subsection, text) ==
    section # "null" /\ startsWithDash(text)

\* Line 325: the guard of the bullet step.
collects(collecting, section, subsection, text) ==
    collecting /\ section # "null" /\ subsection # "null" /\ startsWithDash(text)

\* Mutant of resetsCollection: the step is skipped for bullet lines.
resetsCollectionElseIf(text) ==
    ~startsWithDash(text) /\ lowerIncludes(text, "overall assessment:")

\* Line 341: the guard of the overall-assessment step, a plain if that
\* follows the bullet step.
resetsCollection(text) == lowerIncludes(text, "overall assessment:")

\* Mutant of assessmentReset: the collection goes on.
assessmentResetKept ==
    [currentSubsection |-> currentSubsection, collectingPoints |-> collectingPoints]

\* Lines 342-343: the overall-assessment step stops collection.
assessmentReset == [currentSubsection |-> "null", collectingPoints |-> FALSE]

\* Mutant of newResult: the report of the previous call is reused.
\* Mutant of sectionAfterAssessment: the active category is cleared too.
sectionAfterAssessmentCleared(section) == "null"

\* Lines 341-345: the overall-assessment step does not assign currentSection.
sectionAfterAssessment(section) == section

carriedResult == result

\* Lines 247-253: every call starts from six records of score 0 and empty
\* lists.
newResult == emptyResult

(***************************************************************************)
(* Data of the /api/analyze/gemini pipeline                                *)
(*                                                                         *)
(* Sizes are in bytes.  An optional value is a sequence of length 0 or 1.  *)
(***************************************************************************)
MB == 1024 * 1024

\* Lines 256-259 of geminiAnalyzer.ts: the metadata of a parsed report.
defaultMetadata == [fileSize |-> "", duration |-> ""]

\* Lines 36-40: the prompt opens with one of two context prefixes.
promptOf(productDescription) ==
    IF productDescription # ""
    THEN <<"known product", productDescription>>
    ELSE <<"unspecified product">>

\* Lines 260-267: rawData as processGeminiResponse builds it.
parsedRawData(text) ==
    [geminiResponse |-> text, labels |-> <<>>, transcript |-> "", shots |-> <<>>,
     textDetection |-> <<>>, objectDetection |-> <<>>, prompt |-> <<>>]

\* The VideoAnalysisResult processGeminiResponse returns (line 373).
parsedReport ==
    [categories |-> result, overallScore |-> overallScore, suggestions |-> suggestions,
     metadata |-> defaultMetadata, rawData |-> parsedRawData(analysis)]

\* Lines 210-214: analyzeVideo adds the prompt and the response text.
withRawData(report, prompt, text) ==
    [report EXCEPT !.rawData = [@ EXCEPT !.prompt = prompt, !.geminiResponse = text]]

\* Lines 27-32 of index.ts: the limit of the upload middleware, which
\* refuses a larger file before the handler is entered.
tooLargeForUpload(size) == size > 20 * MB

\* Line 139 of index.ts: the handler's own test of the file size.
tooLargeForHandler(size) == size > 20 * MB

\* Mutant of tooLarge: the limit is that of the upload.
tooLargeAboveUploadLimit(size) == size > 20 * MB

\* Lines 18-23: a buffer of more than 19 MB is refused.
tooLarge(size) == size > 19 * MB

\* Mutant of withMetadata: the supplied metadata is dropped.
withMetadataIgnored(report, metadata) == report

\* Lines 166-169 of index.ts: supplied metadata replaces the report's.
withMetadata(report, metadata) ==
    IF metadata # <<>> THEN [report EXCEPT !.metadata = metadata[1]] ELSE report

noRequest == [source |-> "none", size |-> 0, metadata |-> <<>>, productDescription |-> ""]

noResponse == [status |-> 0, body |-> <<>>, details |-> ""]

errorResponse(status, details) == [status |-> status, body |-> <<>>, details |-> details]

\* The handler of index.ts lines 129-186 is an async function and nothing
\* serialises its runs: a slot holds one run.  at is where the run waits:
\* "fetch" (line 149), "body" (line 153), "generate" (geminiAnalyzer.ts line
\* 196), "response" (line 197), "parse" (inside processGeminiResponse),
\* "analyzed" (index.ts line 163, the promise of analyzeVideo settled with
\* analysisResult or with error), "responded", or "free".
Slots == {1, 2}

slotIdle ==
    [req |-> noRequest, at |-> "free", videoContent |-> -1, called |-> FALSE,
     analysisResult |-> <<>>, error |-> "", res |-> noResponse]

httpIdle == [s \in Slots |-> slotIdle]

\* geminiAnalyzer.ts lines 12-196, the synchronous opening of analyzeVideo:
\* the size check throws, which rejects the promise the route awaits, or the
\* generative service is called.
analyzeVideo(h) ==
    IF tooLarge(h.videoContent)
    THEN [h EXCEPT !.at = "analyzed", !.error = "Video file is too large"]
    ELSE [h EXCEPT !.called = TRUE, !.at = "generate"]

\* index.ts lines 178-185: the catch of the route answers status 500.
caught(h, details) == [h EXCEPT !.at = "responded", !.res = errorResponse(500, details)]

FileSizes == {19 * MB, 19 * MB + 1, 20 * MB + 1}

FetchedSizes == {MB, 25 * MB}

MetadataSet == { <<>>, <<[fileSize |-> "12 MB", duration |-> "0:30"]>> }

ProductDescriptions == {"", "Acme phone"}

Requests ==
    [source : {"file"}, size : FileSizes, metadata : MetadataSet,
     productDescription : ProductDescriptions]
    \cup [source : {"url"}, size : {0}, metadata : MetadataSet,
          productDescription : {""}]
    \cup {noRequest}

\* Texts the generative service may return, as sequences of raw lines.
AnalysisTexts ==
    { << <<" ">> >>,
      << <<"**", "Clarity", " ", "(", "7", "/10", ")", "**">>,
         <<"Good Points:">>,
         <<"-", " ", "great">>,
         <<"**", "Improvement Points:", "**">>,
         <<" ", "-", " ", "audio", " ">> >>,
      << <<"ENGAGEMENT", " ", "(", "15", "/10", ")">>,
         <<"relevance", ":", " ", "8", "/10">> >> }

noReports == [t \in AnalysisTexts |-> <<>>]

(***************************************************************************)
(* Data of the frontend (src/frontend/src/App.tsx)                         *)
(*                                                                         *)
(* file records whether a file is chosen and url is the text of the URL    *)
(* field; results and error are optional values; step is where the running *)
(* handleSubmit waits ("idle" when none runs) and request is the body it   *)
(* sent; last is the kind of the last event, kept as history.              *)
(***************************************************************************)
\* Lines 79-83: the initial values of the five state hooks.
uiIdle ==
    [file |-> FALSE, url |-> "", loading |-> FALSE, results |-> <<>>,
     error |-> <<>>, step |-> "idle", request |-> <<>>, last |-> "init"]

\* Line 227: the submit button is enabled.
submitEnabled(u) == ~u.loading /\ (u.file \/ u.url # "")

\* Mutant of started: the previous results are kept.
startedKeepingResults(u) == [u EXCEPT !.loading = TRUE, !.error = <<>>]

\* Lines 109-111: setLoading(true), setError(null), setResults(null).
started(u) == [u EXCEPT !.loading = TRUE, !.error = <<>>, !.results = <<>>]

\* Lines 137-141: the catch sets the error, the finally ends the loading.
failed(u, message) ==
    [u EXCEPT !.error = <<message>>, !.loading = FALSE, !.step = "idle",
              !.request = <<>>, !.last = "done"]

\* Lines 136 and 139-141: the data becomes the results and the finally
\* ends the loading.
succeeded(u, data) ==
    [u EXCEPT !.results = <<data>>, !.loading = FALSE, !.step = "idle",
              !.request = <<>>, !.last = "done"]

\* Lines 123-129: the body of the request, the file if one is chosen and the
\* URL otherwise.
requestOf(u) == IF u.file THEN [kind |-> "video", url |-> ""]
                ELSE [kind |-> "url", url |-> u.url]

\* Texts of the URL field.
Urls == {"", "https://a", "https://b", "https://c"}

\* Bodies of a successful response: the overall score of the report.
ResponseData == {[overallScore |-> s] : s \in {0, 35, 70, 100}}

pipelineIdle ==
    /\ http = httpIdle
    /\ analysis = <<>>
    /\ reports = noReports
    /\ ui = uiIdle

pipelineVars == <<http, analysis, reports, ui>>

(***************************************************************************)
(* Actions of the narrative parser                                         *)
(***************************************************************************)
\* Lines 246-274: the fresh report and the loop variables.
InitParse ==
    /\ pc = "parse"
    /\ line = <<>>
    /\ i = 0
    /\ currentSection = "null"
    /\ currentSubsection = "null"
    /\ collectingPoints = FALSE
    /\ result = emptyResult
    /\ overallScore = 0
    /\ suggestions = <<>>
    /\ bundle = "none"
    /\ histScore = [c \in CategorySet |-> -1]
    /\ histCat = "none"
    /\ histRegion = "none"
    /\ histLast = "none"
    /\ histAssessed = FALSE
    /\ prev = Snapshot
    /\ pipelineIdle

\* One iteration of the loop of lines 278-346 on the next line of the text.
ProcessLine(raw) ==
    /\ pc = "parse"
    /\ i < MaxLines
    /\ LET text == trim(trim(raw))
           sectionMatch == sectionMatchOf(text)
       IN  /\ line' = text
           /\ i' = i + 1
           /\ histScore' = HistScore(text)
           /\ histCat' = HistCat(text)
           /\ histRegion' = HistRegion(text)
           /\ histLast' = HistLast(text)
           /\ histAssessed' = HistAssessed(text)
           /\ prev' = Snapshot
           /\ IF text = <<>>
              THEN UNCHANGED <<currentSection, currentSubsection, collectingPoints, result>>
              ELSE IF sectionMatch # null
              THEN /\ currentSection' = sectionKey(sectionMatch[1])
                   /\ result' = setScore(result, sectionKey(sectionMatch[1]),
                                          parseInt(sectionMatch[2]))
                   /\ currentSubsection' = headerReset.currentSubsection
                   /\ collectingPoints' = headerReset.collectingPoints
              ELSE IF lowerIncludes(text, "good points:")
              THEN /\ currentSubsection' = "good"
                   /\ collectingPoints' = TRUE
                   /\ UNCHANGED <<currentSection, result>>
              ELSE IF lowerIncludes(text, "improvement points:")
              THEN /\ currentSubsection' = "improvement"
                   /\ collectingPoints' = TRUE
                   /\ UNCHANGED <<currentSection, result>>
              ELSE /\ result' =
                        IF /\ collects(collectingPoints, currentSection,
                                       currentSubsection, text)
                           /\ acceptsPoint(pointOf(text))
                        THEN pushPoint(result, currentSection, currentSubsection, pointOf(text))
                        ELSE result
                   /\ IF resetsCollection(text)
                      THEN /\ collectingPoints' = assessmentReset.collectingPoints
                           /\ currentSubsection' = assessmentReset.currentSubsection
                      ELSE UNCHANGED <<collectingPoints, currentSubsection>>
                   /\ currentSection' = IF resetsCollection(text)
                                        THEN sectionAfterAssessment(currentSection)
                                        ELSE currentSection
    /\ UNCHANGED <<pc, overallScore, suggestions, bundle, pipelineVars>>

\* Lines 348-373: the text is exhausted; the overall score is computed and
\* the report returned.
FinishParse ==
    /\ pc = "parse"
    /\ overallScore' = unweightedOverall(result)
    /\ pc' = "done"
    /\ UNCHANGED <<line, i, currentSection, currentSubsection, collectingPoints,
                   result, suggestions, bundle, histScore, histCat, histRegion,
                   histLast, histAssessed, prev, pipelineVars>>

NextParse ==
    \/ \E raw \in LineSet : ProcessLine(raw)
    \/ FinishParse

SpecParse == InitParse /\ [][NextParse]_vars

(***************************************************************************)
(* AnnotationHeuristicScorer: VideoAnalyzer.analyze*                       *)
(*                                                                         *)
(* A transcript (and an on-screen text) is a sequence of words; the string *)
(* is the words joined by single spaces.                                   *)
(***************************************************************************)
\* string.length of each word of the vocabulary.
WordLen ==
    [hi |-> 2, hello |-> 5, as |-> 2, you |-> 3, can |-> 3, see |-> 3,
     Check |-> 5, this |-> 4, out |-> 3, Interesting |-> 11,
     the |-> 3, product |-> 7, reviews |-> 7, great |-> 5, a |-> 1,
     Acme |-> 4, Take |-> 4, look |-> 4]

\* String.prototype.toLowerCase on a word.
lowerWord(w) ==
    CASE w = "Check" -> "check"
      [] w = "Interesting" -> "interesting"
      [] w = "Acme" -> "acme"
      [] w = "Take" -> "take"
      [] OTHER -> w

\* w.includes(m) for lower-cased vocabulary words.
wordIncludes(w, m) == w = m \/ (w = "reviews" /\ m = "review")

\* transcript.length
RECURSIVE sumLen(_)
sumLen(words) == IF words = <<>> THEN 0 ELSE WordLen[Head(words)] + sumLen(Tail(words))

strLength(words) == IF words = <<>> THEN 0 ELSE sumLen(words) + (Len(words) - 1)

\* transcript.split(/\s+/).length: the empty string splits into [''].
splitCount(words) == IF words = <<>> THEN 1 ELSE Len(words)

\* text.toLowerCase().includes(marker), the marker a sequence of words: a
\* one-word marker may lie inside a word, the words of a longer marker only
\* equal words of the vocabulary.
includesMarker(words, marker) ==
    \E k \in 1..(Len(words) - Len(marker) + 1) :
        \A j \in 1..Len(marker) :
            IF Len(marker) = 1
            THEN wordIncludes(lowerWord(words[k + j - 1]), marker[j])
            ELSE lowerWord(words[k + j - 1]) = marker[j]

engagementMarkers ==
    << <<"you", "can", "see">>, <<"let", "me", "show">>, <<"as", "you", "can", "see">>,
       <<"check", "this", "out">>, <<"take", "a", "look">>, <<"notice", "how">>,
       <<"what", "you'll", "find">>, <<"interesting">> >>

relevantTopics ==
    << <<"product">>, <<"review">>, <<"recommendation">>, <<"features">>,
       <<"quality">>, <<"experience">>, <<"opinion">> >>

\* markers.filter(marker => text.toLowerCase().includes(marker)).length
markerCount(words, markers) ==
    Cardinality({k \in 1..Len(markers) : includesMarker(words, markers[k])})

\* Mutant of clamp: the maximum is 3.
clampLow(score) == IF score < 3 THEN score ELSE 3

\* Math.min(score, 5)
clamp(score) == IF score < 5 THEN score ELSE 5

scored(score, details) ==
    [score |-> clamp(score), details |-> details, goodPoints |-> <<>>, improvementPoints |-> <<>>]

\* Mutant of analyzeClarity: two points for every detected text, unclamped.
analyzeClarityPerText(transcript, textDetections) ==
    [score |-> (IF strLength(transcript) \div 5 > 0 THEN 3 ELSE 0) + 2 * Len(textDetections),
     details |-> <<>>, goodPoints |-> <<>>, improvementPoints |-> <<>>]

\* Mutant of analyzeClarity: any speech at all earns the three points.
analyzeClarityAnySpeech(transcript, textDetections) ==
    LET early == strLength(transcript) > 0
        shown == Len(textDetections) > 0
    IN  scored((IF early THEN 3 ELSE 0) + (IF shown THEN 2 ELSE 0), <<>>)

\* Lines 297-321; slice(0, transcript.length * 0.2) keeps the first
\* floor(length / 5) characters.
analyzeClarity(transcript, textDetections) ==
    LET firstPartLength == strLength(transcript) \div 5
        early == firstPartLength > 0
        shown == Len(textDetections) > 0
    IN  scored((IF early THEN 3 ELSE 0) + (IF shown THEN 2 ELSE 0),
               (IF early THEN <<"Subject introduced early in the video">> ELSE <<>>)
               \o (IF shown THEN <<"Product name or title shown">> ELSE <<>>))

\* Mutant of speechBonus: the two bonuses add up.
speechBonusCumulative(engagementCount) ==
    (IF engagementCount >= 3 THEN 2 ELSE 0) + (IF engagementCount > 0 THEN 1 ELSE 0)

\* The speech bonus of lines 337-343 (and 480-486).
speechBonus(engagementCount) ==
    IF engagementCount >= 3 THEN 2 ELSE IF engagementCount > 0 THEN 1 ELSE 0

speechDetail(engagementCount) ==
    IF engagementCount >= 3 THEN <<"Strong viewer engagement through verbal cues">>
    ELSE IF engagementCount > 0 THEN <<"Basic viewer engagement detected">>
    ELSE <<>>

analyzeEngagement(transcript, textDetections) ==
    LET engagementCount == markerCount(transcript, engagementMarkers)
        engagementInText ==
            Cardinality({k \in 1..Len(textDetections) :
                \E m \in 1..Len(engagementMarkers) :
                    includesMarker(textDetections[k], engagementMarkers[m])})
    IN  scored(speechBonus(engagementCount) + (IF engagementInText > 0 THEN 1 ELSE 0),
               speechDetail(engagementCount)
               \o (IF engagementInText > 0 THEN <<"Engagement detected in text">> ELSE <<>>))

\* new Set(labels.map(label => label.entity?.description)).size
uniqueTopics(labels) == {labels[k] : k \in 1..Len(labels)}

analyzeRelevance(transcript, labels) ==
    LET relevantCount == markerCount(transcript, relevantTopics)
        covered == Cardinality(uniqueTopics(labels)) >= 5
    IN  scored((IF relevantCount > 0 THEN 2 ELSE 0) + (IF covered THEN 2 ELSE 0),
               (IF relevantCount > 0 THEN <<"Relevant topics covered">> ELSE <<>>)
               \o (IF covered THEN <<"Comprehensive feature coverage detected">> ELSE <<>>))

analyzeInformativeContent(transcript, labels) ==
    LET informativeCount == markerCount(transcript, relevantTopics)
        covered == Cardinality(uniqueTopics(labels)) >= 5
    IN  scored((IF informativeCount > 0 THEN 2 ELSE 0) + (IF covered THEN 2 ELSE 0),
               (IF informativeCount > 0 THEN <<"Informative content present">> ELSE <<>>)
               \o (IF covered THEN <<"Comprehensive feature coverage detected">> ELSE <<>>))

\* Lines 505-517; avgWordLength = transcript.length / wordCount is compared
\* with 3 and 10 after multiplying through by wordCount.
analyzeAudioQuality(transcript) ==
    LET wordCount == splitCount(transcript)
        length == strLength(transcript)
    IN  IF wordCount > 10 /\ length > 3 * wordCount /\ length < 10 * wordCount THEN 2
        ELSE IF wordCount > 0 THEN 1
        ELSE 0

\* Mutant of shotBonus: the two bonuses add up.
shotBonusCumulative(shots) ==
    (IF shots >= 10 THEN 2 ELSE 0) + (IF shots >= 5 THEN 1 ELSE 0)

\* Lines 426-432 (and 463-469).
shotBonus(shots) == IF shots >= 10 THEN 2 ELSE IF shots >= 5 THEN 1 ELSE 0

shotDetail(shots) ==
    IF shots >= 10 THEN <<"Excellent visual variety with multiple camera angles">>
    ELSE IF shots >= 5 THEN <<"Good visual variety">>
    ELSE <<>>

\* Mutant of hasGestures: a confidence of exactly 0.7 counts.
hasGesturesFrom(persons) ==
    /\ Len(persons) > 0
    /\ \E p \in 1..Len(persons) :
          \E k \in 1..Len(persons[p].attributes) :
              /\ persons[p].attributes[k].name = "gesture"
              /\ persons[p].attributes[k].confidence >= 70

\* Lines 442-447 (and 489-494); confidence in hundredths.
hasGestures(persons) ==
    /\ Len(persons) > 0
    /\ \E p \in 1..Len(persons) :
          \E k \in 1..Len(persons[p].attributes) :
              /\ persons[p].attributes[k].name = "gesture"
              /\ persons[p].attributes[k].confidence > 70

gestureDetail(persons) ==
    IF hasGestures(persons) THEN <<"Effective use of gestures and body language">> ELSE <<>>

analyzeVisualsAndAudio(shots, transcript, persons) ==
    LET audioQuality == analyzeAudioQuality(transcript)
    IN  scored(shotBonus(shots)
               + (IF audioQuality > 0 THEN audioQuality ELSE 0)
               + (IF hasGestures(persons) THEN 1 ELSE 0),
               shotDetail(shots)
               \o (IF audioQuality = 2 THEN <<"Good audio quality (2 points)">>
                   ELSE IF audioQuality = 1 THEN <<"Good audio quality (1 points)">>
                   ELSE <<>>)
               \o gestureDetail(persons))

analyzePresentation(shots, transcript, persons) ==
    LET engagementCount == markerCount(transcript, engagementMarkers)
    IN  scored(shotBonus(shots)
               + speechBonus(engagementCount)
               + (IF hasGestures(persons) THEN 1 ELSE 0),
               shotDetail(shots) \o speechDetail(engagementCount) \o gestureDetail(persons))

(***************************************************************************)
(* ScoreAggregator: calculateOverallScore and generateSuggestions          *)
(***************************************************************************)
\* The weights of lines 520-527, in tenths.
weights ==
    [clarity |-> 10, engagement |-> 15, relevance |-> 15,
     informativeContent |-> 15, visualsAndAudio |-> 20, presentation |-> 15]

RECURSIVE reduceSum(_, _)
reduceSum(f, keys) ==
    IF keys = <<>> THEN 0 ELSE f[Head(keys)] + reduceSum(f, Tail(keys))

\* Mutant of calculateOverallScore: categories at 0 are left out, as in the
\* narrative parser.
calculateOverallScoreSkipZero(res) ==
    LET counted == [c \in CategorySet |-> IF res[c].score > 0 THEN weights[c] ELSE 0]
        totalWeight == reduceSum(counted, Categories)
        weightedSum == reduceSum([c \in CategorySet |-> res[c].score * weights[c]], Categories)
    IN  IF totalWeight > 0 THEN roundTenths(weightedSum, totalWeight) ELSE 0

\* Mutant of calculateOverallScore: the weighted sum is divided by the
\* number of categories.
calculateOverallScoreByCount(res) ==
    roundTenths(reduceSum([c \in CategorySet |-> res[c].score * weights[c]], Categories),
                10 * Len(Categories))

\* Math.round((weightedSum / totalWeight) * 10), the result in tenths.
calculateOverallScore(res) ==
    LET totalWeight == reduceSum(weights, Categories)
        weightedSum == reduceSum([c \in CategorySet |-> res[c].score * weights[c]], Categories)
    IN  roundTenths(weightedSum, totalWeight)

suggestionFor ==
    [clarity |-> "Enhance the introduction with a clear purpose statement and product overview",
     engagement |-> "Enhance viewer engagement with more visual variety and verbal cues",
     relevance |-> "Provide more relevant and targeted content",
     informativeContent |-> "Include more specific data points and technical details",
     visualsAndAudio |-> "Improve visuals and audio quality",
     presentation |-> "Enhance presentation with better visual variety and verbal cues"]

\* Lines 540-557: six tests in the order of Categories.
RECURSIVE suggestFrom(_, _)
suggestFrom(res, keys) ==
    IF keys = <<>> THEN <<>>
    ELSE (IF res[Head(keys)].score < 4 THEN <<suggestionFor[Head(keys)]>> ELSE <<>>)
         \o suggestFrom(res, Tail(keys))

\* Mutant of generateSuggestions: the tests read "score <= 4".
RECURSIVE suggestUpTo(_, _)
suggestUpTo(res, keys) ==
    IF keys = <<>> THEN <<>>
    ELSE (IF res[Head(keys)].score <= 4 THEN <<suggestionFor[Head(keys)]>> ELSE <<>>)
         \o suggestUpTo(res, Tail(keys))

generateSuggestionsUpTo(res) == suggestUpTo(res, Categories)

generateSuggestions(res) == suggestFrom(res, Categories)

(***************************************************************************)
(* Annotation bundles                                                      *)
(***************************************************************************)
MaxSegs == 2

\* Pieces of speech a transcript is made of.
Phrases ==
    { <<"look">>,
      <<"hello">>,
      <<"as", "you", "can", "see">>,
      <<"Check", "this", "out">>,
      <<"as", "you", "can", "see", "Check", "this", "out", "Interesting",
        "the", "product", "reviews">>,
      <<"the", "product", "reviews">>,
      <<"a", "a", "a", "a", "a", "a", "a", "a", "a", "a", "a">>,
      <<"great", "great", "great", "great", "great", "great",
        "great", "great", "great", "great", "great">> }

RECURSIVE TranscriptsOf(_)
TranscriptsOf(n) ==
    IF n = 0 THEN {<<>>}
    ELSE LET shorter == TranscriptsOf(n - 1)
         IN  shorter \cup {t \o ph : t \in shorter, ph \in Phrases}

Transcripts == TranscriptsOf(MaxSegs)

ShotCounts == {0, 4, 5, 9, 10}

\* label.entity?.description of each shot label ("undefined" when absent).
LabelLists ==
    { <<>>,
      <<"phone", "screen", "hand", "table", "phone">>,
      <<"phone", "screen", "hand", "table", "box">>,
      <<"phone", "screen", "hand", "table", "undefined">> }

TextDetectionLists ==
    { <<>>,
      << <<"Acme">> >>,
      << <<"Acme">>, <<"Take", "a", "look">>, <<"Check", "this", "out">> >> }

PersonLists ==
    { <<>>,
      << [attributes |-> <<>>] >>,
      << [attributes |-> << [name |-> "gesture", confidence |-> 70] >>] >>,
      << [attributes |-> <<>>],
         [attributes |-> << [name |-> "pose", confidence |-> 95],
                            [name |-> "gesture", confidence |-> 71] >>] >>,
      << [attributes |-> << [name |-> "pose", confidence |-> 95] >>] >> }

Bundles ==
    [transcript : Transcripts, shots : ShotCounts, labels : LabelLists,
     textDetections : TextDetectionLists, persons : PersonLists]

(***************************************************************************)
(* Actions of the annotation pipeline                                      *)
(***************************************************************************)
parserIdle ==
    /\ line = <<>>
    /\ i = 0
    /\ currentSection = "null"
    /\ currentSubsection = "null"
    /\ collectingPoints = FALSE
    /\ histScore = [c \in CategorySet |-> -1]
    /\ histCat = "none"
    /\ histRegion = "none"
    /\ histLast = "none"
    /\ histAssessed = FALSE
    /\ prev = Snapshot

parserVars ==
    <<line, i, currentSection, currentSubsection, collectingPoints,
      histScore, histCat, histRegion, histLast, histAssessed, prev>>

\* The annotation response has arrived; nothing is scored yet.
InitAnnotate ==
    /\ pc = "annotate"
    /\ bundle \in Bundles
    /\ result = emptyResult
    /\ overallScore = 0
    /\ suggestions = <<>>
    /\ parserIdle
    /\ pipelineIdle

\* The six category records of lines 199-205.
scoreBundle(b) ==
    [c \in CategorySet |->
        CASE c = "clarity" -> analyzeClarity(b.transcript, b.textDetections)
          [] c = "engagement" -> analyzeEngagement(b.transcript, b.textDetections)
          [] c = "relevance" -> analyzeRelevance(b.transcript, b.labels)
          [] c = "informativeContent" -> analyzeInformativeContent(b.transcript, b.labels)
          [] c = "visualsAndAudio" -> analyzeVisualsAndAudio(b.shots, b.transcript, b.persons)
          [] c = "presentation" -> analyzePresentation(b.shots, b.transcript, b.persons)]

\* VideoAnalyzer.processAnalysisResults, lines 199-238.
ProcessAnalysisResults ==
    /\ pc = "annotate"
    /\ result' = scoreBundle(bundle)
    /\ overallScore' = calculateOverallScore(result')
    /\ suggestions' = generateSuggestions(result')
    /\ pc' = "done"
    /\ UNCHANGED <<bundle, parserVars, pipelineVars>>

NextAnnotate == ProcessAnalysisResults

SpecAnnotate == InitAnnotate /\ [][NextAnnotate]_vars

(***************************************************************************)
(* The aggregator on its own: any six scores of the annotation scale       *)
(***************************************************************************)
MaxAnnotationScore == 5

InitAggregate ==
    /\ pc = "aggregate"
    /\ result \in [CategorySet -> {CategoryAnalysis(s) : s \in 0..MaxAnnotationScore}]
    /\ overallScore = 0
    /\ suggestions = <<>>
    /\ bundle = "none"
    /\ parserIdle
    /\ pipelineIdle

\* Lines 223-224 applied to the six records.
Aggregate ==
    /\ pc = "aggregate"
    /\ overallScore' = calculateOverallScore(result)
    /\ suggestions' = generateSuggestions(result)
    /\ pc' = "done"
    /\ UNCHANGED <<result, bundle, parserVars, pipelineVars>>

NextAggregate == Aggregate

SpecAggregate == InitAggregate /\ [][NextAggregate]_vars

(***************************************************************************)
(* The narrative pipeline: POST /api/analyze/gemini (index.ts, 129-186)    *)
(* calling GeminiAnalyzer.analyzeVideo (geminiAnalyzer.ts, 12-240) of the  *)
(* one GeminiAnalyzer of index.ts line 36.  A step is one run of the       *)
(* thread from a resumption to the next await; runs of different requests  *)
(* interleave at the awaits.  processGeminiResponse has no await: while    *)
(* pc is "parse" or "done" the thread is inside it and no other run        *)
(* resumes.                                                                *)
(***************************************************************************)
serverVars ==
    <<line, i, currentSection, currentSubsection, collectingPoints, result,
      overallScore, suggestions, bundle, histScore, histCat, histRegion, histLast,
      histAssessed, prev, analysis, reports, ui>>

InitGemini ==
    /\ pc = "idle"
    /\ result = emptyResult
    /\ overallScore = 0
    /\ suggestions = <<>>
    /\ bundle = "none"
    /\ parserIdle
    /\ pipelineIdle

\* A slot that holds no run in progress; a new run takes the first one.
Available(s) == http[s].at \in {"free", "responded"}

\* index.ts lines 129-163, the handler from its entry to its first await:
\* the choice of the video source; an uploaded file goes on into
\* analyzeVideo.  The answer 413 of lines 139-144 is given to a file of more
\* than 20 MB, which the upload middleware never lets through.
handler(h) ==
    IF h.req.source = "file"
    THEN IF tooLargeForHandler(h.req.size)
         THEN [h EXCEPT !.at = "responded", !.res = errorResponse(413, "File Too Large")]
         ELSE analyzeVideo([h EXCEPT !.videoContent = h.req.size])
    ELSE IF h.req.source = "url"
    THEN [h EXCEPT !.at = "fetch"]
    ELSE [h EXCEPT !.at = "responded",
                   !.res = errorResponse(400, "No video content provided")]

\* index.ts lines 27-32 and 129: upload.single('video') refuses a file over
\* its limit, and the error, which no error middleware registered after the
\* route takes, is answered with status 500; any other request enters the
\* handler.
Route(s, req) ==
    /\ pc = "idle"
    /\ Available(s)
    /\ \A t \in Slots : t < s => ~Available(t)
    /\ LET h == [slotIdle EXCEPT !.req = req]
       IN  http' = [http EXCEPT ![s] =
               IF req.source = "file" /\ tooLargeForUpload(req.size)
               THEN [h EXCEPT !.at = "responded",
                              !.res = errorResponse(500, "File too large")]
               ELSE handler(h)]
    /\ UNCHANGED <<pc, serverVars>>

\* index.ts lines 149-153 and 178-185: the fetch of the URL settles, with an
\* ok response, whose body is then awaited, with a response that is not ok,
\* or with a rejection.
FetchVideo(s, outcome) ==
    /\ pc = "idle"
    /\ http[s].at = "fetch"
    /\ http' = [http EXCEPT ![s] =
           CASE outcome = "ok" -> [http[s] EXCEPT !.at = "body"]
             [] outcome = "notOk" -> caught(http[s], "Failed to fetch video")
             [] outcome = "rejected" -> caught(http[s], "fetch failed")]
    /\ UNCHANGED <<pc, serverVars>>

\* index.ts lines 153-163 and 178-185: the body arrives and analyzeVideo is
\* entered, or reading the body fails.
ReadBody(s, ok, size) ==
    /\ pc = "idle"
    /\ http[s].at = "body"
    /\ http' = [http EXCEPT ![s] =
           IF ok
           THEN analyzeVideo([http[s] EXCEPT !.videoContent = size])
           ELSE caught(http[s], "terminated")]
    /\ UNCHANGED <<pc, serverVars>>

\* geminiAnalyzer.ts lines 196 and 235-239: the generative call fails and
\* the catch rethrows.
GenerateContentFails(s) ==
    /\ pc = "idle"
    /\ http[s].at = "generate"
    /\ http' = [http EXCEPT ![s] = [http[s] EXCEPT !.at = "analyzed",
                                                     !.error = "generateContent failed"]]
    /\ UNCHANGED <<pc, serverVars>>

\* geminiAnalyzer.ts lines 196-197: the generative call settles and its
\* response is awaited.
GenerateContent(s) ==
    /\ pc = "idle"
    /\ http[s].at = "generate"
    /\ http' = [http EXCEPT ![s] = [http[s] EXCEPT !.at = "response"]]
    /\ UNCHANGED <<pc, serverVars>>

\* geminiAnalyzer.ts lines 197-198 and 235-239: the response or its text
\* cannot be had.
ResponseFails(s) ==
    /\ pc = "idle"
    /\ http[s].at = "response"
    /\ http' = [http EXCEPT ![s] = [http[s] EXCEPT !.at = "analyzed",
                                                     !.error = "response failed"]]
    /\ UNCHANGED <<pc, serverVars>>

\* geminiAnalyzer.ts lines 197-206 and 242-276: the response settles, its
\* text is read and processGeminiResponse is entered with fresh locals.
ResponseText(s, text) ==
    /\ pc = "idle"
    /\ http[s].at = "response"
    /\ http' = [http EXCEPT ![s] = [http[s] EXCEPT !.at = "parse"]]
    /\ analysis' = text
    /\ line' = <<>>
    /\ i' = 0
    /\ currentSection' = "null"
    /\ currentSubsection' = "null"
    /\ collectingPoints' = FALSE
    /\ result' = newResult
    /\ overallScore' = 0
    /\ suggestions' = <<>>
    /\ histScore' = [c \in CategorySet |-> -1]
    /\ histCat' = "none"
    /\ histRegion' = "none"
    /\ histLast' = "none"
    /\ histAssessed' = FALSE
    /\ prev' = [result |-> result', currentSection |-> "null",
                currentSubsection |-> "null", collectingPoints |-> FALSE,
                histScore |-> histScore', histCat |-> "none", histRegion |-> "none",
                histLast |-> "none"]
    /\ pc' = "parse"
    /\ UNCHANGED <<bundle, reports, ui>>

\* The loop of lines 278-346 on the next line of the returned text.
ParseLine ==
    /\ \E s \in Slots : http[s].at = "parse"
    /\ i < Len(analysis)
    /\ ProcessLine(analysis[i + 1])

\* Lines 348-375 once every line has been read.
ParseEnd ==
    /\ \E s \in Slots : http[s].at = "parse"
    /\ i = Len(analysis)
    /\ FinishParse

\* geminiAnalyzer.ts lines 206-234: rawData is completed and analyzeVideo
\* returns, which resolves the promise the route awaits.
Return(s) ==
    /\ pc = "done"
    /\ http[s].at = "parse"
    /\ http' = [http EXCEPT ![s] =
           [http[s] EXCEPT
               !.at = "analyzed",
               !.analysisResult =
                   <<withRawData(parsedReport, promptOf(http[s].req.productDescription),
                                 analysis)>>]]
    /\ reports' = IF reports[analysis] = <<>>
                  THEN [reports EXCEPT ![analysis] = <<parsedReport>>]
                  ELSE reports
    /\ pc' = "idle"
    /\ UNCHANGED <<line, i, currentSection, currentSubsection, collectingPoints,
                   result, overallScore, suggestions, bundle, histScore, histCat,
                   histRegion, histLast, histAssessed, prev, analysis, ui>>

\* index.ts lines 163-185: the route resumes; the metadata is set and the
\* report is sent, or the catch answers with the error.
Respond(s) ==
    /\ pc = "idle"
    /\ http[s].at = "analyzed"
    /\ http' = [http EXCEPT ![s] =
           IF http[s].analysisResult # <<>>
           THEN [http[s] EXCEPT
                    !.at = "responded",
                    !.res = [status |-> 200,
                             body |-> <<withMetadata(http[s].analysisResult[1],
                                                     http[s].req.metadata)>>,
                             details |-> ""]]
           ELSE caught(http[s], http[s].error)]
    /\ UNCHANGED <<pc, serverVars>>

NextGemini ==
    \/ \E s \in Slots, req \in Requests : Route(s, req)
    \/ \E s \in Slots, outcome \in {"ok", "notOk", "rejected"} : FetchVideo(s, outcome)
    \/ \E s \in Slots, ok \in BOOLEAN, size \in FetchedSizes : ReadBody(s, ok, size)
    \/ \E s \in Slots : GenerateContentFails(s)
    \/ \E s \in Slots : GenerateContent(s)
    \/ \E s \in Slots : ResponseFails(s)
    \/ \E s \in Slots, text \in AnalysisTexts : ResponseText(s, text)
    \/ ParseLine
    \/ ParseEnd
    \/ \E s \in Slots : Return(s)
    \/ \E s \in Slots : Respond(s)

SpecGemini == InitGemini /\ [][NextGemini]_vars

(***************************************************************************)
(* The frontend: App of src/frontend/src/App.tsx.  The state updates of    *)
(* one synchronous stretch of a handler take effect together.              *)
(***************************************************************************)
backendVars ==
    <<pc, line, i, currentSection, currentSubsection, collectingPoints, result,
      overallScore, suggestions, bundle, histScore, histCat, histRegion, histLast,
      histAssessed, prev, http, analysis, reports>>

InitFrontend ==
    /\ pc = "frontend"
    /\ result = emptyResult
    /\ overallScore = 0
    /\ suggestions = <<>>
    /\ bundle = "none"
    /\ parserIdle
    /\ pipelineIdle

\* Lines 85-91: a file is chosen.
HandleFileChange ==
    /\ pc = "frontend"
    /\ ui' = [ui EXCEPT !.file = TRUE, !.url = "", !.error = <<>>, !.last = "input"]
    /\ UNCHANGED backendVars

\* Lines 93-97: the URL field is edited, to a text or to nothing.
HandleUrlChange(value) ==
    /\ pc = "frontend"
    /\ ui' = [ui EXCEPT !.url = value, !.file = FALSE, !.error = <<>>, !.last = "input"]
    /\ UNCHANGED backendVars

\* Lines 99-101, offered while a file is chosen (line 173).
ClearFile ==
    /\ pc = "frontend"
    /\ ui.file
    /\ ui' = [ui EXCEPT !.file = FALSE, !.last = "input"]
    /\ UNCHANGED backendVars

\* Lines 103-105, offered while the URL field is non-empty (line 212).
ClearUrl ==
    /\ pc = "frontend"
    /\ ui.url # ""
    /\ ui' = [ui EXCEPT !.url = "", !.last = "input"]
    /\ UNCHANGED backendVars

\* Lines 107-129, up to the await of fetch: the form is submitted through
\* its button (line 227).
HandleSubmit ==
    /\ pc = "frontend"
    /\ submitEnabled(ui)
    /\ ui' = IF ui.file \/ ui.url # ""
             THEN [started(ui) EXCEPT !.step = "fetch", !.request = <<requestOf(ui)>>,
                                      !.last = "submit"]
             ELSE failed(started(ui), "Please provide a video file or URL")
    /\ UNCHANGED backendVars

\* Lines 123-133 and 137-141: the fetch settles, with a response or with a rejection.
FetchSettles(outcome) ==
    /\ pc = "frontend"
    /\ ui.step = "fetch"
    /\ ui' = CASE outcome = "ok" -> [ui EXCEPT !.step = "json"]
               [] outcome = "notOk" -> failed(ui, "Failed to analyze video")
               [] outcome = "rejected" -> failed(ui, "Failed to fetch")
    /\ UNCHANGED backendVars

\* Lines 135-136 and 139-141: the body is read as JSON and becomes the results.
JsonSettles(data) ==
    /\ pc = "frontend"
    /\ ui.step = "json"
    /\ ui' = succeeded(ui, data)
    /\ UNCHANGED backendVars

\* Lines 135 and 137-141: the body is not JSON.
JsonFails ==
    /\ pc = "frontend"
    /\ ui.step = "json"
    /\ ui' = failed(ui, "Unexpected token")
    /\ UNCHANGED backendVars

Settles ==
    \/ \E outcome \in {"ok", "notOk", "rejected"} : FetchSettles(outcome)
    \/ \E data \in ResponseData : JsonSettles(data)
    \/ JsonFails

NextFrontend ==
    \/ HandleFileChange
    \/ \E value \in Urls : HandleUrlChange(value)
    \/ ClearFile
    \/ ClearUrl
    \/ HandleSubmit
    \/ \E outcome \in {"ok", "notOk", "rejected"} : FetchSettles(outcome)
    \/ \E data \in ResponseData : JsonSettles(data)
    \/ JsonFails

\* Every pending promise settles.
SpecFrontend == InitFrontend /\ [][NextFrontend]_vars /\ WF_vars(Settles)

(***************************************************************************)
(* Properties                                                              *)
(***************************************************************************)
Abs(x) == IF x < 0 THEN 0 - x ELSE x

Range(seq) == {seq[k] : k \in 1..Len(seq)}

Scores(c1, c2, c3, c4, c5, c6) ==
    /\ result["clarity"].score = c1
    /\ result["engagement"].score = c2
    /\ result["relevance"].score = c3
    /\ result["informativeContent"].score = c4
    /\ result["visualsAndAudio"].score = c5
    /\ result["presentation"].score = c6

\* C1: whatever lines were read, the parse can end with a report (nothing
\* is raised), the report holds the six categories, and a category for which
\* no header line was recognised has score 0 and two empty point lists.
C1_MissingCategoryZero ==
    /\ pc \in {"parse", "done"}
    /\ pc = "parse" => ENABLED FinishParse
    /\ DOMAIN result = CategorySet
    /\ \A c \in CategorySet :
          histScore[c] = -1 =>
              /\ result[c].score = 0
              /\ result[c].goodPoints = <<>>
              /\ result[c].improvementPoints = <<>>

\* C1 witness: a returned report with a scored category holding points next
\* to categories that were never headed.
C1_Witness ==
    /\ pc = "done"
    /\ i >= 4
    /\ histScore["clarity"] = -1
    /\ histScore["visualsAndAudio"] = 4
    /\ result["visualsAndAudio"].goodPoints # <<>>
    /\ result["clarity"] = CategoryAnalysis(0)

\* C2: the score of a category is the number written in the last header
\* line recognised for it (a later header overwrites an earlier score).
C2_LastHeaderWins ==
    \A c \in CategorySet : histScore[c] # -1 => result[c].score = histScore[c]

\* C2 witness: "**Clarity (7/10)**" read after a Clarity header that gave 6.
C2_Witness ==
    /\ line = <<"**", "Clarity", " ", "(", "7", "/10", ")", "**">>
    /\ prev.result["clarity"].score = 6
    /\ result["clarity"].score = 7

\* C3: a recognised header line sets the score of the category the
\* documented table gives for its name, and leaves that category's lists
\* and the five other categories as they were.
C3_HeaderUpdatesItsCategory ==
    (i > 0 /\ IsHeader(line)) =>
        LET key == DocumentedKey(WrittenName(line))
        IN  /\ currentSection = key
            /\ result[key].score = WrittenScore(line)
            /\ result[key].goodPoints = prev.result[key].goodPoints
            /\ result[key].improvementPoints = prev.result[key].improvementPoints
            /\ \A c \in CategorySet \ {key} : result[c] = prev.result[c]

\* C3 witness: a "Visuals and Audio Quality" header read when another
\* category already holds a score and a point.
C3_Witness ==
    /\ line = <<"Visuals and Audio Quality", " ", "(", "4", "/10", ")">>
    /\ prev.result["visualsAndAudio"].score = 0
    /\ result["visualsAndAudio"].score = 4
    /\ \E c \in CategorySet \ {"visualsAndAudio"} :
          result[c].score > 0 /\ result[c].goodPoints # <<>>

\* C4: every category score of the narrative report is an integer in 0..10.
C4_NarrativeScoreInRange ==
    \A c \in CategorySet : result[c].score \in 0..10

\* C5: every category score of the annotation report is an integer in 0..5.
C5_AnnotationScoreInRange ==
    \A c \in CategorySet : result[c].score \in 0..5

\* C5 witness: a scored bundle whose clarity and visualsAndAudio reach 5.
C5_Witness ==
    /\ pc = "done"
    /\ bundle.shots >= 10
    /\ result["clarity"].score = 5
    /\ result["visualsAndAudio"].score = 5

\* The effect of a bullet line read in region `region`: none on the lists
\* of the other kind, none on the lists of the categories that are not
\* active, and on the active category's list of the region the bullet's
\* text appended when the text is kept (non-empty and without "overall
\* assessment", colon or not) and nothing otherwise.
C6_BulletGoesTo(region) ==
    LET point == pointOf(line)
        kept == point # <<>> /\ ~lowerIncludes(point, "overall assessment")
        mine(c) == IF region = "good" THEN result[c].goodPoints
                   ELSE result[c].improvementPoints
        mineBefore(c) == IF region = "good" THEN prev.result[c].goodPoints
                         ELSE prev.result[c].improvementPoints
        other(c) == IF region = "good" THEN result[c].improvementPoints
                    ELSE result[c].goodPoints
        otherBefore(c) == IF region = "good" THEN prev.result[c].improvementPoints
                          ELSE prev.result[c].goodPoints
    IN  /\ \A c \in CategorySet : other(c) = otherBefore(c)
        /\ \A c \in CategorySet \ {prev.histCat} : mine(c) = mineBefore(c)
        /\ (prev.histCat # "none" /\ kept) =>
              mine(prev.histCat) = Append(mineBefore(prev.histCat), point)
        /\ (prev.histCat # "none" /\ ~kept) =>
              mine(prev.histCat) = mineBefore(prev.histCat)

\* C6 as stated: every bullet line between a points marker and the next
\* marker, header or "Overall Assessment:" line is added to the active
\* category's list of that marker, and to no list of the other kind.
C6_BulletAlwaysAdded ==
    (/\ i > 0
     /\ IsBullet(line)
     /\ ~lowerIncludes(line, "overall assessment:")
     /\ prev.histRegion # "none"
     /\ prev.histCat # "none") =>
        LET c == prev.histCat
        IN  IF prev.histRegion = "good"
            THEN /\ result[c].goodPoints =
                       Append(prev.result[c].goodPoints, pointOf(line))
                 /\ \A d \in CategorySet :
                       result[d].improvementPoints = prev.result[d].improvementPoints
            ELSE /\ result[c].improvementPoints =
                       Append(prev.result[c].improvementPoints, pointOf(line))
                 /\ \A d \in CategorySet :
                       result[d].goodPoints = prev.result[d].goodPoints

\* C6 amended: a bullet line between a "Good Points:" marker and the next
\* "Improvement Points:" marker, header or "Overall Assessment:" line changes
\* no improvementPoints list and only the active category's goodPoints: its
\* text is appended there when it is non-empty and does not contain
\* "overall assessment" (with or without the colon), and otherwise the line
\* is discarded; a bullet line after an "Improvement Points:" marker,
\* symmetrically.
C6_BulletsGoToTheirList ==
    (i > 0 /\ IsBullet(line) /\ prev.histRegion # "none") =>
        C6_BulletGoesTo(prev.histRegion)

\* C6 witness: in a Good Points region whose category already holds the
\* point of an earlier bullet, the bullet "- Overall Assessment noted" was
\* read and discarded.
C6_Witness ==
    /\ IsBullet(line)
    /\ pointOf(line) = <<"Overall Assessment", " ", "noted">>
    /\ prev.histRegion = "good"
    /\ histRegion = "good"
    /\ histCat # "none"
    /\ prev.result[histCat].goodPoints = << <<"great">> >>
    /\ result[histCat].goodPoints = << <<"great">> >>

\* C7: the overall score of the narrative report is the mean of the
\* category scores that are > 0, rounded to one decimal, and 0 when there
\* is none.  In tenths: overallScore is an integer nearest to 10 * sum / n.
C7_UnweightedMean ==
    pc = "done" =>
        LET positive == {c \in CategorySet : result[c].score > 0}
            n == Cardinality(positive)
            total == sumScores(result, positive)
        IN  IF n = 0 THEN overallScore = 0
            ELSE 2 * Abs(n * overallScore - 10 * total) <= n

\* C7 witness: the scores [6,0,8,0,4,0] give 6.0.
C7_Witness ==
    /\ pc = "done"
    /\ Scores(6, 0, 8, 0, 4, 0)
    /\ overallScore = 60

\* C8: the weighted overall score is (1.0 clarity + 1.5 engagement +
\* 1.5 relevance + 1.5 informativeContent + 2.0 visualsAndAudio +
\* 1.5 presentation) / 9 rounded to one decimal, zero scores included.
\* In tenths, with W ten times the weighted sum: overallScore is the
\* integer nearest to W / 9.
C8_WeightedMean ==
    pc = "done" =>
        LET W == 10 * result["clarity"].score + 15 * result["engagement"].score
                 + 15 * result["relevance"].score + 15 * result["informativeContent"].score
                 + 20 * result["visualsAndAudio"].score + 15 * result["presentation"].score
        IN  2 * Abs(9 * overallScore - W) <= 9

\* C8 witness: zero-valued categories pull the average down, 5,0,0,0,0,0
\* gives 0.6.
C8_Witness ==
    /\ pc = "done"
    /\ Scores(5, 0, 0, 0, 0, 0)
    /\ overallScore = 6

\* C9: six equal scores k give the weighted overall score k.
C9_UniformIsWeightInvariant ==
    pc = "done" =>
        \A k \in 0..MaxAnnotationScore :
            Scores(k, k, k, k, k, k) => overallScore = 10 * k

\* C9 witness: all six scores 4 give 4.0.
C9_Witness ==
    /\ pc = "done"
    /\ Scores(4, 4, 4, 4, 4, 4)
    /\ overallScore = 40

\* Position in Categories of the category a suggestion sentence belongs to.
SentenceCategory(sentence) ==
    CHOOSE k \in 1..Len(Categories) : suggestionFor[Categories[k]] = sentence

\* C10: the suggestions are the fixed sentences of exactly the categories
\* scoring below 4, one each, in the order of the categories.
C10_SuggestionsBelowThreshold ==
    pc = "done" =>
        /\ Len(suggestions) = Cardinality({c \in CategorySet : result[c].score < 4})
        /\ \A c \in CategorySet :
              (result[c].score < 4) <=> (suggestionFor[c] \in Range(suggestions))
        /\ \A a, b \in 1..Len(suggestions) :
              a < b => SentenceCategory(suggestions[a]) < SentenceCategory(suggestions[b])

\* C10 witness: three categories below 4 (one of them at 3), three at or
\* above it (one of them at 4).
C10_Witness ==
    /\ pc = "done"
    /\ Scores(3, 4, 0, 5, 2, 4)
    /\ suggestions = <<suggestionFor["clarity"], suggestionFor["relevance"],
                       suggestionFor["visualsAndAudio"]>>

\* The run of slot s has sent a report.
Responded(s) == http[s].at = "responded" /\ http[s].res.status = 200

\* C11: the report returned by the narrative pipeline holds the remediation
\* sentence of every category scoring below the threshold, so it has a
\* suggestion whenever a category underperforms.
C11_NarrativeSuggestionsFilled ==
    \A s \in Slots : Responded(s) =>
        LET report == http[s].res.body[1]
        IN  /\ \A c \in CategorySet :
                  report.categories[c].score < 4 =>
                      suggestionFor[c] \in Range(report.suggestions)
            /\ (\E c \in CategorySet : report.categories[c].score < 4) =>
                  report.suggestions # <<>>

\* C12: a parse starts from the all-zero report with no active category and
\* no collection, and a text parsed again, whatever was parsed since, gives
\* the report its first parse gave.
C12_ParseDeterministic ==
    /\ (pc = "parse" /\ i = 0) =>
          /\ result = emptyResult
          /\ overallScore = 0
          /\ suggestions = <<>>
          /\ currentSection = "null"
          /\ currentSubsection = "null"
          /\ ~collectingPoints
    /\ (pc = "done" /\ reports[analysis] # <<>>) =>
          parsedReport = reports[analysis][1]

\* C12 witness: a text with a scored category and a collected point has
\* been parsed a second time, after a different text gave a different
\* report.
C12_Witness ==
    /\ pc = "done"
    /\ reports[analysis] # <<>>
    /\ result["clarity"].score = 7
    /\ result["clarity"].goodPoints # <<>>
    /\ \E t \in AnalysisTexts :
          /\ reports[t] # <<>>
          /\ reports[t][1].categories # result

\* C13: in visualsAndAudio and in presentation alike, the shots of the
\* bundle add 2 to the score when there are ten or more, 1 when there are
\* five to nine and nothing below five, with the matching detail line and
\* never both.
C13_ShotBonusExclusive ==
    pc = "done" =>
        LET n == bundle.shots
            bonus == IF n >= 10 THEN 2 ELSE IF n >= 5 THEN 1 ELSE 0
            visuals0 == analyzeVisualsAndAudio(0, bundle.transcript, bundle.persons)
            presentation0 == analyzePresentation(0, bundle.transcript, bundle.persons)
        IN  /\ result["visualsAndAudio"].score = visuals0.score + bonus
            /\ result["presentation"].score = presentation0.score + bonus
            /\ \A c \in {"visualsAndAudio", "presentation"} :
                  /\ ("Excellent visual variety with multiple camera angles"
                         \in Range(result[c].details)) <=> (n >= 10)
                  /\ ("Good visual variety" \in Range(result[c].details))
                         <=> (n >= 5 /\ n <= 9)

\* C13 witness: ten shots, with good audio and a gesture, give
\* visualsAndAudio 2 + 2 + 1 and, with no engagement marker, presentation
\* 2 + 0 + 1.
C13_Witness ==
    /\ pc = "done"
    /\ bundle.shots = 10
    /\ result["visualsAndAudio"].score = 5
    /\ result["presentation"].score = 3
    /\ "Good visual variety" \notin Range(result["presentation"].details)

\* The report the run of slot s sends when its request carries no metadata.
ReportWithoutMetadata(s) == withMetadata(http[s].analysisResult[1], <<>>)

\* C14: when the request supplies metadata, the report sent back carries
\* that value as its metadata, and its six categories, overall score,
\* suggestions and rawData are those of the same request without metadata.
C14_MetadataPassthrough ==
    \A s \in Slots : (Responded(s) /\ http[s].req.metadata # <<>>) =>
        LET report == http[s].res.body[1]
        IN  /\ report.metadata = http[s].req.metadata[1]
            /\ report.categories = ReportWithoutMetadata(s).categories
            /\ report.overallScore = ReportWithoutMetadata(s).overallScore
            /\ report.suggestions = ReportWithoutMetadata(s).suggestions
            /\ report.rawData = ReportWithoutMetadata(s).rawData

\* C14 witness: a request with metadata and a product description got a
\* report with a scored category, and the run of another request, without
\* metadata, has parsed another text since that report was parsed; the
\* metadata differs from the parser's default.
C14_Witness ==
    /\ Responded(1)
    /\ http[1].req.metadata = <<[fileSize |-> "12 MB", duration |-> "0:30"]>>
    /\ http[1].req.productDescription = "Acme phone"
    /\ http[1].res.body[1].metadata = [fileSize |-> "12 MB", duration |-> "0:30"]
    /\ http[1].res.body[1].metadata # ReportWithoutMetadata(1).metadata
    /\ http[1].res.body[1].categories["clarity"].score = 7
    /\ http[1].res.body[1].rawData.prompt = <<"known product", "Acme phone">>
    /\ http[2].at = "analyzed"
    /\ http[2].analysisResult # <<>>
    /\ http[2].req.metadata = <<>>
    /\ analysis # http[1].res.body[1].rawData.geminiResponse

\* C15: the generative service is never called with a buffer of more than
\* 19 MB; such a request, and a request whose generative call failed, ends
\* with an error response that carries no report, and only a request whose
\* call succeeded gets a report.
C15_FailuresSurfaced ==
    \A s \in Slots :
        LET h == http[s]
        IN  /\ h.videoContent > 19 * MB => ~h.called
            /\ h.at \in {"generate", "response", "parse"} =>
                  /\ h.called /\ h.videoContent <= 19 * MB
                  /\ h.res = noResponse /\ h.analysisResult = <<>> /\ h.error = ""
            /\ h.at = "analyzed" =>
                  /\ h.res = noResponse
                  /\ (h.analysisResult = <<>>) <=> (h.error # "")
                  /\ h.analysisResult # <<>> => h.called
            /\ h.at = "responded" =>
                  /\ h.res.status \in {200, 400, 500}
                  /\ (h.res.status = 200) <=> (h.res.body # <<>>)
                  /\ h.res.status = 200 => h.called /\ h.error = ""
                  /\ h.videoContent > 19 * MB =>
                        h.res.status = 500 /\ h.res.body = <<>>
                  /\ h.error # "" =>
                        /\ h.res = errorResponse(500, h.error)
                        /\ h.analysisResult = <<>>
                  /\ h.res.details = "generateContent failed" => h.called

\* C15 witness: an uploaded file one byte over 19 MB was refused without
\* the generative service being called.
C15_Witness ==
    /\ http[1].at = "responded"
    /\ http[1].req.source = "file"
    /\ http[1].videoContent = 19 * MB + 1
    /\ ~http[1].called
    /\ http[1].res.status = 500
    /\ http[1].res.details = "Video file is too large"
    /\ http[1].res.body = <<>>
    /\ http[2].at = "responded"
    /\ http[2].called
    /\ http[2].res = errorResponse(500, "generateContent failed")

\* The last line read was a dash-bullet met while the parser was collecting
\* with an active category.
BulletWhileCollecting ==
    /\ pc = "parse"
    /\ i > 0
    /\ IsBullet(line)
    /\ prev.collectingPoints
    /\ prev.currentSection # "null"
    /\ prev.currentSubsection # "null"

SameCollectingState ==
    /\ collectingPoints = prev.collectingPoints
    /\ currentSubsection = prev.currentSubsection
    /\ currentSection = prev.currentSection

\* C16 as stated: a dash-bullet met while collecting with an active category
\* leaves the parser in the same collecting state, whatever its text.
C16_BulletKeepsCollecting == BulletWhileCollecting => SameCollectingState

\* C16 amended: such a bullet leaves the parser in the same collecting state
\* unless the line contains 'overall assessment:'; then it is not appended
\* and the overall-assessment step, which follows the bullet step, ends the
\* collection and keeps the active category.
C16_BulletThenAssessmentStep ==
    BulletWhileCollecting =>
        IF lowerIncludes(line, "overall assessment:")
        THEN /\ ~collectingPoints
             /\ currentSubsection = "null"
             /\ currentSection = prev.currentSection
             /\ result = prev.result
        ELSE SameCollectingState

\* C16 witness: a bullet holding 'Overall Assessment:' met after a point
\* had been collected ended the collection.
C16_Witness ==
    /\ BulletWhileCollecting
    /\ lowerIncludes(line, "overall assessment:")
    /\ \E c \in CategorySet : prev.result[c].goodPoints # <<>>
    /\ prev.currentSubsection = "good"
    /\ currentSubsection = "null"
    /\ ~collectingPoints

\* The list the parser was collecting into before the last line.
ActiveList(res) ==
    IF prev.currentSubsection = "good"
    THEN res[prev.currentSection].goodPoints
    ELSE res[prev.currentSection].improvementPoints

\* The last line's text was appended to the active list and nothing else
\* changed in the report.
Appended ==
    /\ ActiveList(result) = Append(ActiveList(prev.result), pointOf(line))
    /\ \A c \in CategorySet :
          /\ result[c].score = prev.result[c].score
          /\ result[c].details = prev.result[c].details
          /\ c # prev.currentSection =>
                /\ result[c].goodPoints = prev.result[c].goodPoints
                /\ result[c].improvementPoints = prev.result[c].improvementPoints
          /\ \/ result[c].goodPoints = prev.result[c].goodPoints
             \/ result[c].improvementPoints = prev.result[c].improvementPoints

\* C17 as stated: the bullet is appended exactly when its stripped text is
\* non-empty and does not contain 'overall assessment:' (with the colon).
C17_AppendedUnlessColonPhrase ==
    BulletWhileCollecting =>
        /\ Appended <=> (/\ pointOf(line) # <<>>
                         /\ ~lowerIncludes(pointOf(line), "overall assessment:"))
        /\ ~Appended => result = prev.result

\* C17 amended: the bullet is appended exactly when its stripped text is
\* non-empty and does not contain 'overall assessment', with or without a
\* colon; otherwise the report is unchanged.  No list holds an empty string.
C17_AppendedUnlessPhrase ==
    /\ BulletWhileCollecting =>
          /\ Appended <=> (/\ pointOf(line) # <<>>
                           /\ ~lowerIncludes(pointOf(line), "overall assessment"))
          /\ ~Appended => result = prev.result
    /\ \A c \in CategorySet :
          /\ <<>> \notin Range(result[c].goodPoints)
          /\ <<>> \notin Range(result[c].improvementPoints)

\* C17 witness: a bullet mentioning 'Overall Assessment' without a colon was
\* dropped while the parser went on collecting.
C17_Witness ==
    /\ BulletWhileCollecting
    /\ lowerIncludes(line, "overall assessment")
    /\ ~lowerIncludes(line, "overall assessment:")
    /\ result = prev.result
    /\ collectingPoints

\* The last line left every goodPoints and improvementPoints list as it was.
ListsUnchanged ==
    \A c \in CategorySet :
        /\ result[c].goodPoints = prev.result[c].goodPoints
        /\ result[c].improvementPoints = prev.result[c].improvementPoints

\* C18: a list grows only on a bullet line read after a header and after a
\* points marker that no header or 'Overall Assessment:' line followed; a
\* bullet read with no header before it, or with no such marker, changes
\* nothing in the report.
C18_BulletNeedsCategoryAndCollection ==
    i > 0 =>
        /\ ~ListsUnchanged =>
              IsBullet(line) /\ prev.histCat # "none" /\ prev.histRegion # "none"
        /\ (IsBullet(line) /\ (prev.histCat = "none" \/ prev.histRegion = "none")) =>
              result = prev.result

\* C18 witness: a bullet with text, read after a Good Points marker that
\* no header preceded, left the all-zero report untouched.
C18_Witness ==
    /\ i > 1
    /\ IsBullet(line)
    /\ acceptsPoint(pointOf(line))
    /\ prev.histCat = "none"
    /\ prev.histRegion = "good"
    /\ prev.collectingPoints
    /\ result = emptyResult

\* C19: a header line ends the collection, and from a header on no line
\* appends anything until the next points marker.
C19_HeaderEndsCollection ==
    i > 0 =>
        /\ IsHeader(line) =>
              ListsUnchanged /\ ~collectingPoints /\ currentSubsection = "null"
        /\ (prev.histLast = "header" /\ ~IsHeader(line) /\ ~IsMarker(line)) =>
              result = prev.result /\ ~collectingPoints /\ currentSubsection = "null"

\* C19 witness: points had been collected for one category, a header of
\* another category followed, and the bullet after it was not appended.
C19_Witness ==
    /\ i > 0
    /\ IsBullet(line)
    /\ acceptsPoint(pointOf(line))
    /\ prev.histLast = "header"
    /\ prev.histCat = "engagement"
    /\ prev.result["clarity"].goodPoints # <<>>
    /\ result = prev.result

\* C20: a line that is not a bullet and contains 'overall assessment:' is
\* added to no list and ends the collection, and from it on no line appends
\* anything until the next points marker.
C20_AssessmentEndsCollection ==
    i > 0 =>
        /\ IsPlainAssessment(line) =>
              result = prev.result /\ ~collectingPoints /\ currentSubsection = "null"
        /\ (prev.histLast = "assessment" /\ ~IsHeader(line) /\ ~IsMarker(line)) =>
              result = prev.result /\ ~collectingPoints /\ currentSubsection = "null"

\* C20 witness: a point was collected, an 'Overall Assessment:' line
\* followed, and the bullet after it was not appended.
C20_Witness ==
    /\ i > 0
    /\ IsBullet(line)
    /\ acceptsPoint(pointOf(line))
    /\ prev.histLast = "assessment"
    /\ prev.currentSection # "null"
    /\ \E c \in CategorySet : prev.result[c].goodPoints # <<>>
    /\ result = prev.result

\* before is what after was, possibly with the last line's point added at
\* the end.
GrownAtEnd(before, after) ==
    \/ after = before
    \/ after = Append(before, pointOf(line))

\* C21: whatever the line read, a duplicate header included, each
\* goodPoints and improvementPoints list is the list it was before the
\* line, with at most the line's own point added at its end.
C21_ListsAppendOnly ==
    i > 0 =>
        \A c \in CategorySet :
            /\ GrownAtEnd(prev.result[c].goodPoints, result[c].goodPoints)
            /\ GrownAtEnd(prev.result[c].improvementPoints, result[c].improvementPoints)

\* C21 witness: a second header of a category that already holds two
\* different points overwrote its score and left the points in place.
C21_Witness ==
    /\ i > 0
    /\ IsHeader(line)
    /\ prev.histScore["clarity"] = 7
    /\ histScore["clarity"] = 6
    /\ result["clarity"].score = 6
    /\ result["clarity"].goodPoints = << <<"great">>, <<"audio">> >>

\* The (trimmed) line begins with one of the six category names.
StartsWithName(text) == text # <<>> /\ toLowerCase(text[1]) \in NameAlternatives

\* The line holds a score token in parentheses: "(", an integer, "/10", ")".
HasParenthesisedScore(text) ==
    \E k \in 1..Len(text) :
        /\ text[k] = "("
        /\ \/ /\ k + 3 <= Len(text)
              /\ text[k + 1] \in NumTok /\ text[k + 2] = "/10" /\ text[k + 3] = ")"
           \/ /\ k + 4 <= Len(text)
              /\ text[k + 1] = "-" /\ text[k + 2] \in NumTok
              /\ text[k + 3] = "/10" /\ text[k + 4] = ")"

\* The line holds digits directly followed by "/10", in parentheses or not.
HasScoreToken(text) ==
    \E k \in 1..(Len(text) - 1) : text[k] \in NumTok /\ text[k + 1] = "/10"

\* The last line changed no score, nor the active category, nor the
\* collection state.
NothingRecognised ==
    /\ \A c \in CategorySet : result[c].score = prev.result[c].score
    /\ SameCollectingState

\* C22 as stated: a line that begins with a category name and holds no
\* parenthesised score token changes no score, nor the active category, nor
\* the collection state.
C22_HeaderNeedsParentheses ==
    (i > 0 /\ StartsWithName(line) /\ ~HasParenthesisedScore(line)) => NothingRecognised

\* C22 amended: a line that begins with a category name is a header exactly
\* when digits directly followed by "/10" come after the name, parentheses
\* or not: with such a token the category takes the number, becomes active
\* and the collection ends.  Without one the line changes no score, no list
\* and not the active category, and is read like any other line: holding
\* "good points:" or "improvement points:" it starts that collection,
\* holding "overall assessment:" it ends the collection, and otherwise the
\* collection state stays as it was.
C22_HeaderNeedsScoreToken ==
    (i > 0 /\ StartsWithName(line)) =>
        IF HasScoreToken(line)
        THEN /\ result[DocumentedKey(WrittenName(line))].score = WrittenScore(line)
             /\ currentSection = DocumentedKey(WrittenName(line))
             /\ ~collectingPoints
             /\ currentSubsection = "null"
        ELSE /\ result = prev.result
             /\ currentSection = prev.currentSection
             /\ IF lowerIncludes(line, "good points:")
                THEN collectingPoints /\ currentSubsection = "good"
                ELSE IF lowerIncludes(line, "improvement points:")
                THEN collectingPoints /\ currentSubsection = "improvement"
                ELSE IF lowerIncludes(line, "overall assessment:")
                THEN ~collectingPoints /\ currentSubsection = "null"
                ELSE SameCollectingState

\* C22 witness: the line 'relevance: 8/10', read while points of another
\* category were being collected, set relevance to 8 and ended the
\* collection.
C22_Witness ==
    /\ i > 0
    /\ StartsWithName(line)
    /\ ~HasParenthesisedScore(line)
    /\ HasScoreToken(line)
    /\ prev.collectingPoints
    /\ prev.currentSection = "clarity"
    /\ currentSection = "relevance"
    /\ result["relevance"].score = 8
    /\ prev.result["relevance"].score = 0
    /\ ~collectingPoints

\* C23: the audio estimate is 2 for a transcript of more than 10 words of
\* average length strictly between 3 and 10, else 1 for a non-empty
\* transcript, else 0; visualsAndAudio is that estimate plus the shot and
\* gesture bonuses, so it is 0 for an empty transcript, fewer than 5 shots
\* and no gesture.
C23_AudioEstimate ==
    pc = "done" =>
        LET words == Len(bundle.transcript)
            length == strLength(bundle.transcript)
            estimate == IF words > 10 /\ length > 3 * words /\ length < 10 * words THEN 2
                        ELSE IF bundle.transcript # <<>> THEN 1
                        ELSE 0
        IN  /\ analyzeAudioQuality(bundle.transcript) = estimate
            /\ result["visualsAndAudio"].score =
                  shotBonus(bundle.shots) + estimate
                  + (IF hasGestures(bundle.persons) THEN 1 ELSE 0)
            /\ (bundle.transcript = <<>> /\ bundle.shots < 5 /\ ~hasGestures(bundle.persons))
                  => result["visualsAndAudio"].score = 0

\* C24: clarity is 3 when the first floor(length / 5) characters of the
\* transcript are not empty, that is when the transcript has 5 characters
\* or more, plus 2 when an on-screen text was detected; it is 0, 2, 3 or 5.
C24_ClarityRule ==
    pc = "done" =>
        LET length == strLength(bundle.transcript)
            prefix == length \div 5
            score == result["clarity"].score
        IN  /\ score = (IF prefix > 0 THEN 3 ELSE 0)
                        + (IF Len(bundle.textDetections) > 0 THEN 2 ELSE 0)
            /\ length >= 5 => score >= 3
            /\ length <= 4 => score <= 2
            /\ score \in {0, 2, 3, 5}

\* C24 witness: a transcript of four characters with an on-screen text
\* scores 2.
C24_Witness ==
    /\ pc = "done"
    /\ strLength(bundle.transcript) = 4
    /\ Len(bundle.textDetections) > 0
    /\ result["clarity"].score = 2

\* The cues of the engagement vocabulary that occur in a text.
CuesIn(words) ==
    {m \in Range(engagementMarkers) : includesMarker(words, m)}

\* C25: with d the number of distinct cues occurring in the transcript,
\* engagement is 2 for d >= 3, 1 for d = 1 or 2 and 0 for d = 0, plus one
\* point when at least one on-screen text holds a cue, however many do.
C25_EngagementRule ==
    pc = "done" =>
        LET d == Cardinality(CuesIn(bundle.transcript))
            speech == IF d >= 3 THEN 2 ELSE IF d >= 1 THEN 1 ELSE 0
            inText == \E k \in 1..Len(bundle.textDetections) :
                          CuesIn(bundle.textDetections[k]) # {}
        IN  result["engagement"].score = speech + (IF inText THEN 1 ELSE 0)

\* C25 witness: three cues in the transcript and two on-screen texts with a
\* cue give 2 + 1.
C25_Witness ==
    /\ pc = "done"
    /\ Cardinality(CuesIn(bundle.transcript)) = 3
    /\ Cardinality({k \in 1..Len(bundle.textDetections) :
                        CuesIn(bundle.textDetections[k]) # {}}) = 2
    /\ result["engagement"].score = 3

\* The descriptions the labels of the bundle carry; a label without a
\* description carries none.
LabelDescriptions == uniqueTopics(bundle.labels) \ {"undefined"}

\* C26: relevance and informativeContent have the same score, 2 when the
\* transcript contains a term of the vocabulary plus 2 when the labels carry
\* at least 5 distinct descriptions; it is 0, 2 or 4.
C26_RelevanceEqualsInformative ==
    pc = "done" =>
        LET term == \E t \in Range(relevantTopics) : includesMarker(bundle.transcript, t)
            expected == (IF term THEN 2 ELSE 0)
                        + (IF Cardinality(LabelDescriptions) >= 5 THEN 2 ELSE 0)
        IN  /\ result["relevance"].score = result["informativeContent"].score
            /\ result["relevance"].score = expected
            /\ result["informativeContent"].score = expected
            /\ result["relevance"].score \in {0, 2, 4}

\* Some person of the bundle has an attribute named gesture with a
\* confidence of more than 0.7.
GestureSeen ==
    \E p \in Range(bundle.persons) :
        \E a \in Range(p.attributes) : a.name = "gesture" /\ a.confidence > 70

\* C27: presentation is the shot bonus of visualsAndAudio (what the shots
\* add to it), plus the speech bonus of engagement (its score without
\* on-screen texts), plus 1 exactly when a gesture of confidence above 0.7
\* was seen, the gesture bonus of visualsAndAudio.
C27_PresentationIsSumOfBonuses ==
    pc = "done" =>
        LET shot == result["visualsAndAudio"].score
                    - analyzeVisualsAndAudio(0, bundle.transcript, bundle.persons).score
            speech == analyzeEngagement(bundle.transcript, <<>>).score
            gesture == IF GestureSeen THEN 1 ELSE 0
        IN  /\ result["presentation"].score = shot + speech + gesture
            /\ result["visualsAndAudio"].score
                 - analyzeVisualsAndAudio(bundle.shots, bundle.transcript, <<>>).score = gesture

\* C27 witness: ten shots, three cues and a gesture of confidence exactly
\* 0.7 give 2 + 2 + 0.
C27_Witness ==
    /\ pc = "done"
    /\ bundle.shots = 10
    /\ Cardinality(CuesIn(bundle.transcript)) >= 3
    /\ \E p \in Range(bundle.persons) :
          \E a \in Range(p.attributes) : a.name = "gesture" /\ a.confidence = 70
    /\ ~GestureSeen
    /\ result["presentation"].score = 4

\* The points the scorer adds together with each detail line it writes.
DetailPoints(detail) ==
    CASE detail = "Subject introduced early in the video" -> 3
      [] detail = "Product name or title shown" -> 2
      [] detail = "Strong viewer engagement through verbal cues" -> 2
      [] detail = "Basic viewer engagement detected" -> 1
      [] detail = "Engagement detected in text" -> 1
      [] detail = "Relevant topics covered" -> 2
      [] detail = "Informative content present" -> 2
      [] detail = "Comprehensive feature coverage detected" -> 2
      [] detail = "Excellent visual variety with multiple camera angles" -> 2
      [] detail = "Good visual variety" -> 1
      [] detail = "Good audio quality (2 points)" -> 2
      [] detail = "Good audio quality (1 points)" -> 1
      [] detail = "Effective use of gestures and body language" -> 1

RECURSIVE SumDetailPoints(_)
SumDetailPoints(details) ==
    IF details = <<>> THEN 0
    ELSE DetailPoints(Head(details)) + SumDetailPoints(Tail(details))

\* C28: in an annotation report engagement is at most 3 and relevance and
\* informativeContent at most 4; every score is the plain sum of the points
\* behind its detail lines, the clamp to 5 changing nothing; the engagement
\* suggestion is always present; the overall score is at most 4.3.
C28_AnnotationScoreCeilings ==
    pc = "done" =>
        /\ result["engagement"].score <= 3
        /\ result["relevance"].score <= 4
        /\ result["informativeContent"].score <= 4
        /\ \A c \in CategorySet : result[c].score = SumDetailPoints(result[c].details)
        /\ suggestionFor["engagement"] \in Range(suggestions)
        /\ overallScore <= 43

\* C28 witness: every category at its ceiling, the overall score 4.3 and
\* the engagement suggestion the only one.
C28_Witness ==
    /\ pc = "done"
    /\ Scores(5, 3, 4, 4, 5, 5)
    /\ overallScore = 43
    /\ suggestions = <<suggestionFor["engagement"]>>

\* C29: the active category changes only on a header line, so it is the
\* category of the most recent header also after an 'Overall Assessment:'
\* line, and a bullet collected after such a line and a new points marker
\* goes to the lists of that category.
C29_CategorySurvivesAssessment ==
    i > 0 =>
        /\ ~IsHeader(line) => currentSection = prev.currentSection
        /\ currentSection = (IF histCat = "none" THEN "null" ELSE histCat)
        /\ (histAssessed /\ IsBullet(line) /\ prev.histRegion # "none"
               /\ prev.histCat # "none" /\ acceptsPoint(pointOf(line))) =>
              /\ Appended
              /\ prev.currentSection = histCat

\* C29 witness: after the header of clarity, an 'Overall Assessment:' line
\* and an Improvement Points marker, a bullet went to clarity's
\* improvementPoints.
C29_Witness ==
    /\ i > 0
    /\ histAssessed
    /\ IsBullet(line)
    /\ histCat = "clarity"
    /\ prev.histRegion = "improvement"
    /\ prev.result["clarity"].improvementPoints = <<>>
    /\ result["clarity"].improvementPoints = <<pointOf(line)>>
    /\ result["clarity"].goodPoints = <<>>

\* The handler waits for the fetch or for the body of the response.
SubmitPending == ui.step \in {"fetch", "json"}

\* Exactly one of results and error is non-null.
ExactlyOneOutcome == (ui.results # <<>>) # (ui.error # <<>>)

SubmitLifecycleSafe ==
    /\ SubmitPending => ui.loading /\ ui.results = <<>> /\ ui.error = <<>>
    /\ ui.last = "done" => ~ui.loading /\ ExactlyOneOutcome
    /\ ~(ui.results # <<>> /\ ui.error # <<>>)

\* C30: while a submit waits for its request, loading is true and results
\* and error are both null; loading always returns to false; when the submit
\* has just finished, loading is false and exactly one of results and error
\* is non-null; results and error are never both non-null.
C30_SubmitLifecycle == []SubmitLifecycleSafe /\ (ui.loading ~> ~ui.loading)

\* A submit that replaced earlier results has finished with a failure.
C30_Witness ==
    /\ pc = "frontend"
    /\ ui.last = "done"
    /\ ~ui.loading
    /\ ui.error = <<"Failed to analyze video">>
    /\ ui.results = <<>>

====
